---- MODULE Spec2Model ----
(***************************************************************************)
(* Model of sevensense_device/device.py: the Device class, its update      *)
(* threads (one per initiate_update call), the two supervised child        *)
(* processes, and the environment the probes read.                         *)
(***************************************************************************)
EXTENDS Integers, FiniteSets, Sequences, TLC

(* ------------------------------ bounds --------------------------------- *)
\* number of initiate_update calls (threads) in one behaviour
NumTasks == 2
\* software versions range over 1..MaxVersion
MaxVersion == 2
\* the clock advances TickStep seconds at a time, up to MaxTime seconds
TickStep == 300
MaxTime == 900

Tasks == 1..NumTasks
Versions == 1..MaxVersion

(* ------------------------- program constants --------------------------- *)
MAX_UPGRADE_TIME == 10 * 60
MAX_DOWNLOAD_TIME == 5 * 60
MAX_WAIT_FOR_IDLE_TIME == 10 * 60

DeviceState == {"Positioning", "Idle", "Downloading", "Upgrading", "Downgrading"}
UpgradeStatus == {"No_Update", "Success", "Failed"}

\* what ended a phase: the branch of download_image / install_image that returned
PhaseOutcome ==
    {"none", "NotIdle", "ConnectionLost", "DownloadTimeout", "DownloadCompleted",
     "NotDownloading", "PowerLost", "InstallTimeout", "InstallCompleted"}

VARIABLES
    software_version,     \* Device.software_version
    last_upgrade_status,  \* Device.last_upgrade_status
    state,                \* Device.state
    pc,                   \* per thread: position inside update()
    new_version,          \* per thread: argument of update()
    start_time,           \* per thread: local start_time of wait / download_image / install_image
    process,              \* per thread: the child process of the current phase
    stdout_open,          \* per thread: the child's stdout pipe has not reached EOF
    outcome,              \* per thread: branch that ended the last phase (the log line)
    now,                  \* time.time()
    connected,            \* what get_connection_status() returns
    powered,              \* what get_power_status() returns
    req,                  \* history: device fields when the thread was started
    idleSeen,             \* history: state was Idle at some moment since the thread was started
    solo                  \* history: no other thread was in flight during this thread's life

vars == <<software_version, last_upgrade_status, state, pc, new_version, start_time,
          process, stdout_open, outcome, now, connected, powered, req, idleSeen, solo>>

device == <<software_version, last_upgrade_status, state>>
env == <<now, connected, powered>>
locals == <<new_version, start_time, process, stdout_open, outcome>>

InFlight(t) == pc[t] \notin {"new", "done"}

(* ------------------------------ history -------------------------------- *)
\* idleSeen[t] after a step: the thread exists and has seen, or now sees, Idle
TrackIdle ==
    idleSeen' = [u \in Tasks |-> pc'[u] # "new" /\ (idleSeen[u] \/ state' = "Idle")]

(* --------------------------- pure functions ---------------------------- *)
\* Device.check_time_not_exceeded, with time.time() passed as clock
check_time_not_exceeded(st, clock, duration) ==
    IF st - clock < duration THEN TRUE ELSE FALSE

check_install_timeout(st, clock) == check_time_not_exceeded(st, clock, MAX_UPGRADE_TIME)

check_download_timeout(st, clock) == check_time_not_exceeded(st, clock, MAX_DOWNLOAD_TIME)

\* a failure path that returns without terminating the child
Terminate_Missing(p) == p

\* process.terminate(); process.wait()
Terminate(p) == IF p = "running" THEN "terminated" ELSE p

(* ------------------------------- Init ---------------------------------- *)
Init ==
    /\ software_version \in Versions
    /\ last_upgrade_status = "No_Update"
    /\ state = "Idle"
    /\ pc = [t \in Tasks |-> "new"]
    /\ new_version = [t \in Tasks |-> 1]
    /\ start_time = [t \in Tasks |-> 0]
    /\ process = [t \in Tasks |-> "none"]
    /\ stdout_open = [t \in Tasks |-> FALSE]
    /\ outcome = [t \in Tasks |-> "none"]
    /\ now = 0
    /\ connected = TRUE
    /\ powered = TRUE
    /\ req = [t \in Tasks |-> [version |-> 1, status |-> "No_Update", state |-> "Idle"]]
    /\ idleSeen = [t \in Tasks |-> FALSE]
    /\ solo = [t \in Tasks |-> FALSE]

(* ---------------------------- environment ------------------------------ *)
\* time passes (the clock is read only by threads running update())
Tick ==
    /\ \E t \in Tasks : InFlight(t)
    /\ now + TickStep <= MaxTime
    /\ now' = now + TickStep
    /\ UNCHANGED <<device, pc, locals, connected, powered, req, idleSeen, solo>>

\* the network comes or goes between two reads of the connection probe (the probe
\* is read only by the download loop)
ConnectionChange ==
    /\ \E t \in Tasks : pc[t] \in {"dl_poll", "dl_sleep"}
    /\ connected' = ~connected
    /\ UNCHANGED <<device, pc, locals, now, powered, req, idleSeen, solo>>

\* the power supply comes or goes between two reads of the power probe (the probe
\* is read only by the install loop)
PowerChange ==
    /\ \E t \in Tasks : pc[t] \in {"inst_poll", "inst_drain", "inst_exit_check"}
    /\ powered' = ~powered
    /\ UNCHANGED <<device, pc, locals, now, connected, req, idleSeen, solo>>

\* the child process closes its stdout while it keeps running
ProcessCloseOutput(t) ==
    /\ process[t] = "running"
    /\ stdout_open[t]
    /\ stdout_open' = [stdout_open EXCEPT ![t] = FALSE]
    /\ UNCHANGED <<device, pc, new_version, start_time, process, outcome, env, req,
                   idleSeen, solo>>

\* the child process exits by itself (any exit code)
ProcessExit(t) ==
    /\ process[t] = "running"
    /\ process' = [process EXCEPT ![t] = "exited"]
    /\ stdout_open' = [stdout_open EXCEPT ![t] = FALSE]
    /\ UNCHANGED <<device, pc, new_version, start_time, outcome, env, req, idleSeen, solo>>

\* the owner of the device object parks it before it asks for any update:
\* device.state = DeviceState.Positioning
SetPositioning ==
    /\ \A t \in Tasks : pc[t] = "new"
    /\ state = "Idle"
    /\ state' = "Positioning"
    /\ UNCHANGED <<software_version, last_upgrade_status, pc, locals, env, req, solo>>
    /\ TrackIdle

\* the owner of the device object releases it: device.state = DeviceState.Idle
SetIdle ==
    /\ state = "Positioning"
    /\ state' = "Idle"
    /\ UNCHANGED <<software_version, last_upgrade_status, pc, locals, env, req, solo>>
    /\ TrackIdle

(* ------------------------------ threads -------------------------------- *)
\* Device.initiate_update: start a thread running update(v); the thread's first
\* statement is wait()'s start_time = time.time()
initiate_update(t, v) ==
    /\ pc[t] = "new"
    /\ pc' = [pc EXCEPT ![t] = "wait"]
    /\ new_version' = [new_version EXCEPT ![t] = v]
    /\ start_time' = [start_time EXCEPT ![t] = now]
    /\ req' = [req EXCEPT ![t] = [version |-> software_version,
                                  status |-> last_upgrade_status,
                                  state |-> state]]
    /\ solo' = [u \in Tasks |->
                  IF u = t THEN \A w \in Tasks \ {t} : ~InFlight(w)
                  ELSE IF InFlight(u) THEN FALSE ELSE solo[u]]
    /\ UNCHANGED <<device, process, stdout_open, outcome, env>>
    /\ TrackIdle

\* wait() with the comparison dropped: the loop returns True at its first evaluation
wait_poll_NoGate(t) ==
    /\ pc[t] = "wait"
    /\ IF check_time_not_exceeded(start_time[t], now, MAX_WAIT_FOR_IDLE_TIME)
       THEN pc' = [pc EXCEPT ![t] = "version_check"]
       ELSE pc' = [pc EXCEPT ![t] = "done"]
    /\ UNCHANGED <<device, locals, env, req, solo>>
    /\ TrackIdle

\* wait() with the comparison inverted: it returns True when the state is not the target
wait_poll_Inverted(t) ==
    /\ pc[t] = "wait"
    /\ IF check_time_not_exceeded(start_time[t], now, MAX_WAIT_FOR_IDLE_TIME)
       THEN IF state # "Idle"
            THEN pc' = [pc EXCEPT ![t] = "version_check"]
            ELSE pc' = [pc EXCEPT ![t] = "wait_sleep"]
       ELSE pc' = [pc EXCEPT ![t] = "done"]
    /\ UNCHANGED <<device, locals, env, req, solo>>
    /\ TrackIdle

\* Device.wait, one evaluation of the loop: the while condition, then the comparison
wait_poll(t) ==
    /\ pc[t] = "wait"
    /\ IF check_time_not_exceeded(start_time[t], now, MAX_WAIT_FOR_IDLE_TIME)
       THEN IF state = "Idle"
            THEN pc' = [pc EXCEPT ![t] = "version_check"]
            ELSE pc' = [pc EXCEPT ![t] = "wait_sleep"]
       ELSE pc' = [pc EXCEPT ![t] = "done"]
    /\ UNCHANGED <<device, locals, env, req, solo>>
    /\ TrackIdle

\* Device.wait: time.sleep(POLLING_TIME)
wait_sleep(t) ==
    /\ pc[t] = "wait_sleep"
    /\ pc' = [pc EXCEPT ![t] = "wait"]
    /\ UNCHANGED <<device, locals, env, req, solo>>
    /\ TrackIdle

\* Device.update: if self.software_version == new_version: return False
update_version_check(t) ==
    /\ pc[t] = "version_check"
    /\ IF software_version = new_version[t]
       THEN pc' = [pc EXCEPT ![t] = "done"]
       ELSE pc' = [pc EXCEPT ![t] = "dl_check"]
    /\ UNCHANGED <<device, locals, env, req, solo>>
    /\ TrackIdle

\* Device.download_image: if self.state != DeviceState.Idle: return False
download_check(t) ==
    /\ pc[t] = "dl_check"
    /\ IF state # "Idle"
       THEN /\ pc' = [pc EXCEPT ![t] = "fail_status"]
            /\ outcome' = [outcome EXCEPT ![t] = "NotIdle"]
       ELSE /\ pc' = [pc EXCEPT ![t] = "dl_start"]
            /\ UNCHANGED outcome
    /\ UNCHANGED <<device, new_version, start_time, process, stdout_open, env, req, solo>>
    /\ TrackIdle

\* Device.download_image: state = Downloading, Popen(curl), start_time = time.time()
download_start(t) ==
    /\ pc[t] = "dl_start"
    /\ state' = "Downloading"
    /\ process' = [process EXCEPT ![t] = "running"]
    /\ stdout_open' = [stdout_open EXCEPT ![t] = TRUE]
    /\ start_time' = [start_time EXCEPT ![t] = now]
    /\ pc' = [pc EXCEPT ![t] = "dl_poll"]
    /\ UNCHANGED <<software_version, last_upgrade_status, new_version, outcome, env, req, solo>>
    /\ TrackIdle

\* download_image with the connection check missing from the loop
download_poll_NoConnectionCheck(t) ==
    /\ pc[t] = "dl_poll"
    /\ IF ~check_download_timeout(start_time[t], now)
       THEN /\ process' = [process EXCEPT ![t] = Terminate(process[t])]
            /\ outcome' = [outcome EXCEPT ![t] = "DownloadTimeout"]
            /\ pc' = [pc EXCEPT ![t] = "fail_status"]
       ELSE IF process[t] # "running"
       THEN /\ outcome' = [outcome EXCEPT ![t] = "DownloadCompleted"]
            /\ pc' = [pc EXCEPT ![t] = "inst_check"]
            /\ UNCHANGED process
       ELSE /\ pc' = [pc EXCEPT ![t] = "dl_sleep"]
            /\ UNCHANGED <<process, outcome>>
    /\ UNCHANGED <<device, new_version, start_time, stdout_open, env, req, solo>>
    /\ TrackIdle

\* Device.download_image, one tick of the loop: connection, timeout, process.poll()
download_poll(t) ==
    /\ pc[t] = "dl_poll"
    /\ IF ~connected
       THEN /\ process' = [process EXCEPT ![t] = Terminate(process[t])]
            /\ outcome' = [outcome EXCEPT ![t] = "ConnectionLost"]
            /\ pc' = [pc EXCEPT ![t] = "fail_status"]
       ELSE IF ~check_download_timeout(start_time[t], now)
       THEN /\ process' = [process EXCEPT ![t] = Terminate(process[t])]
            /\ outcome' = [outcome EXCEPT ![t] = "DownloadTimeout"]
            /\ pc' = [pc EXCEPT ![t] = "fail_status"]
       ELSE IF process[t] # "running"
       THEN /\ outcome' = [outcome EXCEPT ![t] = "DownloadCompleted"]
            /\ pc' = [pc EXCEPT ![t] = "inst_check"]
            /\ UNCHANGED process
       ELSE /\ pc' = [pc EXCEPT ![t] = "dl_sleep"]
            /\ UNCHANGED <<process, outcome>>
    /\ UNCHANGED <<device, new_version, start_time, stdout_open, env, req, solo>>
    /\ TrackIdle

\* Device.download_image: time.sleep(POLLING_TIME)
download_sleep(t) ==
    /\ pc[t] = "dl_sleep"
    /\ pc' = [pc EXCEPT ![t] = "dl_poll"]
    /\ UNCHANGED <<device, locals, env, req, solo>>
    /\ TrackIdle

\* update() returning after a failed phase without recording the failure
update_fail_status_Skipped(t) ==
    /\ pc[t] = "fail_status"
    /\ pc' = [pc EXCEPT ![t] = "fail_state"]
    /\ UNCHANGED <<device, locals, env, req, solo>>
    /\ TrackIdle

\* Device.update: self.last_upgrade_status = UpgradeStatus.Failed (either phase failed)
update_fail_status(t) ==
    /\ pc[t] = "fail_status"
    /\ last_upgrade_status' = "Failed"
    /\ pc' = [pc EXCEPT ![t] = "fail_state"]
    /\ UNCHANGED <<software_version, state, locals, env, req, solo>>
    /\ TrackIdle

\* update() returning after a failed phase without giving the device back
update_fail_state_KeepsState(t) ==
    /\ pc[t] = "fail_state"
    /\ pc' = [pc EXCEPT ![t] = "done"]
    /\ UNCHANGED <<device, locals, env, req, solo>>
    /\ TrackIdle

\* Device.update: self.state = DeviceState.Idle; return False
update_fail_state(t) ==
    /\ pc[t] = "fail_state"
    /\ state' = "Idle"
    /\ pc' = [pc EXCEPT ![t] = "done"]
    /\ UNCHANGED <<software_version, last_upgrade_status, locals, env, req, solo>>
    /\ TrackIdle

\* Device.install_image: if self.state != DeviceState.Downloading: return False
install_check(t) ==
    /\ pc[t] = "inst_check"
    /\ IF state # "Downloading"
       THEN /\ pc' = [pc EXCEPT ![t] = "fail_status"]
            /\ outcome' = [outcome EXCEPT ![t] = "NotDownloading"]
       ELSE /\ pc' = [pc EXCEPT ![t] = "inst_start"]
            /\ UNCHANGED outcome
    /\ UNCHANGED <<device, new_version, start_time, process, stdout_open, env, req, solo>>
    /\ TrackIdle

\* the direction test with its two branches swapped
install_direction_Swapped(cur, new) == IF cur > new THEN "Upgrading" ELSE "Downgrading"

\* Device.install_image: the direction written to state
install_direction(cur, new) == IF cur > new THEN "Downgrading" ELSE "Upgrading"

\* install_image storing the new version when the install starts instead of when it
\* has succeeded
install_start_WritesVersion(t) ==
    /\ pc[t] = "inst_start"
    /\ state' = install_direction(software_version, new_version[t])
    /\ software_version' = new_version[t]
    /\ process' = [process EXCEPT ![t] = "running"]
    /\ stdout_open' = [stdout_open EXCEPT ![t] = TRUE]
    /\ start_time' = [start_time EXCEPT ![t] = now]
    /\ pc' = [pc EXCEPT ![t] = "inst_poll"]
    /\ UNCHANGED <<last_upgrade_status, new_version, outcome, env, req, solo>>
    /\ TrackIdle

\* Device.install_image: state = Upgrading/Downgrading, Popen(sh install.sh),
\* start_time = time.time()
install_start(t) ==
    /\ pc[t] = "inst_start"
    /\ state' = install_direction(software_version, new_version[t])
    /\ process' = [process EXCEPT ![t] = "running"]
    /\ stdout_open' = [stdout_open EXCEPT ![t] = TRUE]
    /\ start_time' = [start_time EXCEPT ![t] = now]
    /\ pc' = [pc EXCEPT ![t] = "inst_poll"]
    /\ UNCHANGED <<software_version, last_upgrade_status, new_version, outcome, env, req, solo>>
    /\ TrackIdle

\* Device.install_image, first half of a tick: power, then timeout
install_poll(t) ==
    /\ pc[t] = "inst_poll"
    /\ IF ~powered
       THEN /\ process' = [process EXCEPT ![t] = Terminate(process[t])]
            /\ outcome' = [outcome EXCEPT ![t] = "PowerLost"]
            /\ pc' = [pc EXCEPT ![t] = "fail_status"]
       ELSE IF ~check_install_timeout(start_time[t], now)
       THEN /\ process' = [process EXCEPT ![t] = Terminate(process[t])]
            /\ outcome' = [outcome EXCEPT ![t] = "InstallTimeout"]
            /\ pc' = [pc EXCEPT ![t] = "fail_status"]
       ELSE /\ pc' = [pc EXCEPT ![t] = "inst_drain"]
            /\ UNCHANGED <<process, outcome>>
    /\ UNCHANGED <<device, new_version, start_time, stdout_open, env, req, solo>>
    /\ TrackIdle

\* Device.install_image: the readline loop; readline() returns '' only at EOF, so the
\* loop is left once the child's stdout is closed
install_drain(t) ==
    /\ pc[t] = "inst_drain"
    /\ ~stdout_open[t]
    /\ pc' = [pc EXCEPT ![t] = "inst_exit_check"]
    /\ UNCHANGED <<device, locals, env, req, solo>>
    /\ TrackIdle

\* Device.install_image: process.poll(), then break or time.sleep(POLLING_TIME)
install_exit_check(t) ==
    /\ pc[t] = "inst_exit_check"
    /\ IF process[t] # "running"
       THEN /\ outcome' = [outcome EXCEPT ![t] = "InstallCompleted"]
            /\ pc' = [pc EXCEPT ![t] = "commit_status"]
       ELSE /\ pc' = [pc EXCEPT ![t] = "inst_poll"]
            /\ UNCHANGED outcome
    /\ UNCHANGED <<device, new_version, start_time, process, stdout_open, env, req, solo>>
    /\ TrackIdle

\* update() committing a successful install without recording the success
update_commit_status_Skipped(t) ==
    /\ pc[t] = "commit_status"
    /\ pc' = [pc EXCEPT ![t] = "commit_version"]
    /\ UNCHANGED <<device, locals, env, req, solo>>
    /\ TrackIdle

\* Device.update: self.last_upgrade_status = UpgradeStatus.Success
update_commit_status(t) ==
    /\ pc[t] = "commit_status"
    /\ last_upgrade_status' = "Success"
    /\ pc' = [pc EXCEPT ![t] = "commit_version"]
    /\ UNCHANGED <<software_version, state, locals, env, req, solo>>
    /\ TrackIdle

\* update() committing a successful install without storing the new version
update_commit_version_Skipped(t) ==
    /\ pc[t] = "commit_version"
    /\ pc' = [pc EXCEPT ![t] = "commit_state"]
    /\ UNCHANGED <<device, locals, env, req, solo>>
    /\ TrackIdle

\* Device.update: self.software_version = new_version
update_commit_version(t) ==
    /\ pc[t] = "commit_version"
    /\ software_version' = new_version[t]
    /\ pc' = [pc EXCEPT ![t] = "commit_state"]
    /\ UNCHANGED <<last_upgrade_status, state, locals, env, req, solo>>
    /\ TrackIdle

\* Device.update: self.state = DeviceState.Idle; return True
update_commit_state(t) ==
    /\ pc[t] = "commit_state"
    /\ state' = "Idle"
    /\ pc' = [pc EXCEPT ![t] = "done"]
    /\ UNCHANGED <<software_version, last_upgrade_status, locals, env, req, solo>>
    /\ TrackIdle

Next ==
    \/ Tick
    \/ ConnectionChange
    \/ PowerChange
    \/ SetPositioning
    \/ SetIdle
    \/ \E t \in Tasks : ProcessCloseOutput(t)
    \/ \E t \in Tasks : ProcessExit(t)
    \/ \E t \in Tasks, v \in Versions : initiate_update(t, v)
    \/ \E t \in Tasks : wait_poll(t)
    \/ \E t \in Tasks : wait_sleep(t)
    \/ \E t \in Tasks : update_version_check(t)
    \/ \E t \in Tasks : download_check(t)
    \/ \E t \in Tasks : download_start(t)
    \/ \E t \in Tasks : download_poll(t)
    \/ \E t \in Tasks : download_sleep(t)
    \/ \E t \in Tasks : update_fail_status(t)
    \/ \E t \in Tasks : update_fail_state(t)
    \/ \E t \in Tasks : install_check(t)
    \/ \E t \in Tasks : install_start(t)
    \/ \E t \in Tasks : install_poll(t)
    \/ \E t \in Tasks : install_drain(t)
    \/ \E t \in Tasks : install_exit_check(t)
    \/ \E t \in Tasks : update_commit_status(t)
    \/ \E t \in Tasks : update_commit_version(t)
    \/ \E t \in Tasks : update_commit_state(t)

Spec == Init /\ [][Next]_vars

\* one statement of the thread running update() for request t
ThreadStep(t) ==
    \/ wait_poll(t) \/ wait_sleep(t) \/ update_version_check(t)
    \/ download_check(t) \/ download_start(t) \/ download_poll(t) \/ download_sleep(t)
    \/ update_fail_status(t) \/ update_fail_state(t)
    \/ install_check(t) \/ install_start(t) \/ install_poll(t) \/ install_drain(t)
    \/ install_exit_check(t)
    \/ update_commit_status(t) \/ update_commit_version(t) \/ update_commit_state(t)

\* the interpreter keeps scheduling every started thread that has a statement to run
FairSpec == Spec /\ \A t \in Tasks : WF_vars(ThreadStep(t))

TypeOK ==
    /\ software_version \in Versions
    /\ last_upgrade_status \in UpgradeStatus
    /\ state \in DeviceState
    /\ outcome \in [Tasks -> PhaseOutcome]
    /\ now \in 0..MaxTime

(* ============================== claims ================================= *)
\* thread t takes a step out of position p
Leaves(t, p) == pc[t] = p /\ pc'[t] # p

\* thread t returns from update()
Returns(t) == pc[t] # "done" /\ pc'[t] = "done"

\* no other thread is running update() at this moment
Alone(t) == \A u \in Tasks \ {t} : ~InFlight(u)

\* C1: an update request for the version the device already runs, issued while the
\* device is Idle, leaves state and the version as they are and sets the last
\* upgrade status to No_Update, whatever the status was before (here: with no other request in flight).
C1_SameVersionRecordsNoUpdate ==
    [][\A t \in Tasks :
         (Leaves(t, "version_check") /\ req[t].state = "Idle" /\ Alone(t)
            /\ software_version = new_version[t])
         => (/\ state' = state
             /\ software_version' = software_version
             /\ last_upgrade_status' = "No_Update")]_vars

\* C2: a request issued while state is not Idle, with state never Idle since, has
\* not passed the admission wait (so it has written nothing), and when the device
\* was parked in Positioning, state, last upgrade status and version still have the
\* values they had when the request was issued.
C2_NonIdleRequestChangesNothing ==
    \A t \in Tasks :
        (pc[t] # "new" /\ req[t].state # "Idle" /\ ~idleSeen[t])
        => (/\ pc[t] \in {"wait", "wait_sleep", "done"}
            /\ outcome[t] = "none"
            /\ req[t].state = "Positioning"
               => (/\ state = req[t].state
                   /\ last_upgrade_status = req[t].status
                   /\ software_version = req[t].version))

\* C2 witness: a request for another version has been polling a parked device from
\* before MAX_WAIT_FOR_IDLE_TIME ago and is asleep between two polls
C2_Witness ==
    \E t \in Tasks :
        /\ pc[t] = "wait_sleep"
        /\ req[t].state = "Positioning"
        /\ ~idleSeen[t]
        /\ new_version[t] # software_version
        /\ now - start_time[t] >= MAX_WAIT_FOR_IDLE_TIME

\* C3: the admission wait is bounded: a poll of the wait loop made when the device
\* is not Idle and MAX_WAIT_FOR_IDLE_TIME or more has elapsed since the wait began
\* ends the wait, and update() returns.
C3_AdmissionWaitBounded ==
    [][\A t \in Tasks :
         (Leaves(t, "wait") /\ state # "Idle"
            /\ now - start_time[t] >= MAX_WAIT_FOR_IDLE_TIME)
         => pc'[t] = "done"]_vars
\* C4: for a request for another version on an Idle device, alone on the device: a
\* Download tick at which the connection probe returns false ends the phase as
\* ConnectionLost; from then on the thread is on the failure path and, until it returns,
\* state is never Upgrading or Downgrading and the version is unchanged; and when update() returns, the last upgrade
\* status is Failed, the version is the one from before the request, state is Idle.
C4_ConnectionLostFailsDownload ==
    /\ [](\A t \in Tasks :
            (solo[t] /\ outcome[t] = "ConnectionLost")
            => (/\ pc[t] \in {"fail_status", "fail_state", "done"}
                /\ InFlight(t) => (/\ state \notin {"Upgrading", "Downgrading"}
                                   /\ software_version = req[t].version)))
    /\ [][\A t \in Tasks :
            /\ (Leaves(t, "dl_poll") /\ ~connected)
               => (outcome'[t] = "ConnectionLost" /\ pc'[t] = "fail_status")
            /\ (Returns(t) /\ solo[t] /\ outcome[t] = "ConnectionLost")
               => (/\ last_upgrade_status' = "Failed"
                   /\ software_version' = req[t].version
                   /\ state' = "Idle")]_vars

\* C4 witness: a lone request for another version has returned after its download
\* lost the connection while the download process was still running
C4_Witness ==
    \E t \in Tasks :
        /\ solo[t] /\ pc[t] = "done" /\ outcome[t] = "ConnectionLost"
        /\ req[t].state = "Idle" /\ new_version[t] # req[t].version
        /\ process[t] = "terminated"
        /\ last_upgrade_status = "Failed" /\ state = "Idle"

\* C5: for a request alone on the device that reached the Install phase: an Install
\* tick at which the power probe returns false ends the phase as PowerLost, and
\* when update() returns, the last upgrade status is Failed, state is Idle and the
\* version is the one from before the request.
C5_PowerLostFailsInstall ==
    /\ [](\A t \in Tasks :
            (solo[t] /\ outcome[t] = "PowerLost")
            => (/\ pc[t] \in {"fail_status", "fail_state", "done"}
                /\ InFlight(t) => software_version = req[t].version))
    /\ [][\A t \in Tasks :
            /\ (Leaves(t, "inst_poll") /\ ~powered)
               => (outcome'[t] = "PowerLost" /\ pc'[t] = "fail_status")
            /\ (Returns(t) /\ solo[t] /\ outcome[t] = "PowerLost")
               => (/\ last_upgrade_status' = "Failed"
                   /\ software_version' = req[t].version
                   /\ state' = "Idle")]_vars

\* C5 witness: a lone request has returned after its install lost power while the
\* install process was still running
C5_Witness ==
    \E t \in Tasks :
        /\ solo[t] /\ pc[t] = "done" /\ outcome[t] = "PowerLost"
        /\ process[t] = "terminated"
        /\ last_upgrade_status = "Failed" /\ state = "Idle"
        /\ software_version = req[t].version

\* the positions of a thread inside install_image
InInstall == {"inst_check", "inst_start", "inst_poll", "inst_drain", "inst_exit_check"}

\* C6: for a request for another version on an Idle device, alone on the device
\* (upgrade or downgrade): a Download tick with the connection up, no timeout and
\* the download process exited completes the download and leads into the Install
\* phase; an Install tick with the install process exited completes the install;
\* and when update() then returns, the last upgrade status is Success, the
\* version is the requested one and state is Idle.
C6_CompletedUpdateSucceeds ==
    /\ [](\A t \in Tasks :
            /\ (solo[t] /\ outcome[t] = "DownloadCompleted") => pc[t] \in InInstall
            /\ (solo[t] /\ outcome[t] = "InstallCompleted")
               => pc[t] \in {"commit_status", "commit_version", "commit_state", "done"})
    /\ [][\A t \in Tasks :
            /\ (/\ Leaves(t, "dl_poll") /\ connected
                /\ check_download_timeout(start_time[t], now)
                /\ process[t] = "exited")
               => outcome'[t] = "DownloadCompleted"
            /\ (Leaves(t, "inst_exit_check") /\ process[t] = "exited")
               => outcome'[t] = "InstallCompleted"
            /\ (Returns(t) /\ solo[t] /\ outcome[t] = "InstallCompleted")
               => (/\ last_upgrade_status' = "Success"
                   /\ software_version' = new_version[t]
                   /\ state' = "Idle")]_vars

\* C6 witness: a lone downgrade request has returned after both of its processes
\* exited, and the device runs the requested, lower version
C6_Witness ==
    \E t \in Tasks :
        /\ solo[t] /\ pc[t] = "done" /\ outcome[t] = "InstallCompleted"
        /\ req[t].state = "Idle" /\ new_version[t] < req[t].version
        /\ process[t] = "exited"
        /\ last_upgrade_status = "Success" /\ state = "Idle"
        /\ software_version = new_version[t]
\* C7: the Download phase has bounded duration: a Download tick made with the
\* connection up and the download process still running, more than
\* MAX_DOWNLOAD_TIME after the phase started, terminates the process and fails the
\* phase, and update() then returns with last upgrade status Failed and state Idle.
C7_DownloadTimeBounded ==
    [][\A t \in Tasks :
         /\ (/\ Leaves(t, "dl_poll") /\ connected /\ process[t] = "running"
             /\ now - start_time[t] > MAX_DOWNLOAD_TIME)
            => (/\ outcome'[t] = "DownloadTimeout"
                /\ process'[t] = "terminated"
                /\ pc'[t] = "fail_status")
         /\ (Returns(t) /\ solo[t] /\ outcome[t] = "DownloadTimeout")
            => (last_upgrade_status' = "Failed" /\ state' = "Idle")]_vars

\* C8: the Install phase has bounded duration: an Install tick made with the power
\* on and the install process still running, more than MAX_UPGRADE_TIME after the
\* phase started, terminates the process and fails the phase, and update() then
\* returns with last upgrade status Failed, the version unchanged and state Idle.
C8_InstallTimeBounded ==
    [][\A t \in Tasks :
         /\ (/\ Leaves(t, "inst_poll") /\ powered /\ process[t] = "running"
             /\ now - start_time[t] > MAX_UPGRADE_TIME)
            => (/\ outcome'[t] = "InstallTimeout"
                /\ process'[t] = "terminated"
                /\ pc'[t] = "fail_status")
         /\ (Returns(t) /\ solo[t] /\ outcome[t] = "InstallTimeout")
            => (/\ last_upgrade_status' = "Failed"
                /\ software_version' = req[t].version
                /\ state' = "Idle")]_vars

\* C9: the timeout guard returns true exactly when now - start_time < bound, for
\* every start time a running thread holds, every later clock value and each of the
\* three positive bounds the program passes.
C9_TimeoutGuardExact ==
    \A t \in Tasks :
        \A d \in {MAX_UPGRADE_TIME, MAX_DOWNLOAD_TIME, MAX_WAIT_FOR_IDLE_TIME} :
            (InFlight(t) /\ start_time[t] <= now)
            => (check_time_not_exceeded(start_time[t], now, d) <=> (now - start_time[t] < d))

\* thread t owns the device: it is between its own write of state = Downloading and
\* its own final write of state = Idle
Owns(t) ==
    \/ pc[t] \in {"dl_poll", "dl_sleep", "commit_status", "commit_version", "commit_state"}
    \/ pc[t] \in InInstall
    \/ pc[t] \in {"fail_status", "fail_state"} /\ outcome[t] # "NotIdle"

\* C10: with any number of concurrent requests, in every reachable state: state is
\* Idle (or the parked state Positioning, which no update thread ever writes) if and
\* only if no update thread owns the device, and whenever state is neither, exactly
\* one update thread owns the device.
C10_SingleOwner ==
    /\ (state \in {"Idle", "Positioning"}) <=> (\A t \in Tasks : ~Owns(t))
    /\ state \notin {"Idle", "Positioning"} => Cardinality({t \in Tasks : Owns(t)}) = 1
\* C11: a request for another version issued while the device is parked in
\* Positioning, once the device has been set to Idle before MAX_WAIT_FOR_IDLE_TIME has
\* elapsed, eventually leaves the admission wait and starts the Download phase (state
\* becomes Downloading), unless another request is started in the meantime.
C11_WaitingRequestStartsDownload ==
    \A t \in Tasks :
        (/\ pc[t] \in {"wait", "wait_sleep"}
         /\ req[t].state = "Positioning"
         /\ solo[t]
         /\ new_version[t] # software_version
         /\ state = "Idle"
         /\ now - start_time[t] < MAX_WAIT_FOR_IDLE_TIME)
        ~> ((pc[t] = "dl_poll" /\ state = "Downloading") \/ ~solo[t])

\* C11 witness: a lone request issued on a parked device has started its download
C11_Witness ==
    \E t \in Tasks :
        /\ req[t].state = "Positioning" /\ solo[t]
        /\ new_version[t] # req[t].version
        /\ pc[t] = "dl_poll" /\ state = "Downloading" /\ process[t] = "running"
\* the phase outcomes that are failures of a phase that was started
PhaseFailures == {"ConnectionLost", "DownloadTimeout", "PowerLost", "InstallTimeout"}

\* C12: a failed attempt leaves the device usable: when a request alone on the device
\* returns after its Download or Install failed, state is Idle and the last upgrade
\* status is Failed; a request issued afterwards on the Idle device is never turned
\* away by the phases' state checks; and when such a request for the same target,
\* with both processes exited, returns, the last upgrade status is Success, the
\* version is the target and state is Idle.
C12_FailedAttemptLeavesDeviceUsable ==
    /\ [](\A u \in Tasks :
            (solo[u] /\ req[u].state = "Idle" /\ req[u].status = "Failed")
            => outcome[u] \notin {"NotIdle", "NotDownloading"})
    /\ [][\A t \in Tasks :
            /\ (Returns(t) /\ solo[t] /\ outcome[t] \in PhaseFailures)
               => (state' = "Idle" /\ last_upgrade_status' = "Failed")
            /\ \A u \in Tasks \ {t} :
                 (/\ pc[t] = "done" /\ solo[t] /\ outcome[t] \in PhaseFailures
                  /\ Returns(u) /\ solo[u] /\ req[u].status = "Failed"
                  /\ new_version[u] = new_version[t]
                  /\ outcome[u] = "InstallCompleted")
                 => (/\ last_upgrade_status' = "Success"
                     /\ software_version' = new_version[u]
                     /\ state' = "Idle")]_vars

\* C12 witness: a request failed on a lost connection, and a second request for the
\* same target, issued after the first had returned, has succeeded
C12_Witness ==
    \E t, u \in Tasks :
        /\ t # u /\ pc[t] = "done" /\ pc[u] = "done" /\ solo[t] /\ solo[u]
        /\ outcome[t] = "ConnectionLost" /\ outcome[u] = "InstallCompleted"
        /\ new_version[u] = new_version[t]
        /\ req[u].status = "Failed" /\ req[u].state = "Idle"
        /\ last_upgrade_status = "Success" /\ software_version = new_version[u]
        /\ state = "Idle"

\* thread t started its download: it wrote state = Downloading itself
Admitted(t) == outcome[t] \notin {"none", "NotIdle"}

\* C13: for a request for another version, alone on the device, that was admitted
\* (started its download): when it returns, and state is Idle again, either the last
\* upgrade status is Success and the version is the target, or the status is Failed
\* and the version is not the target; the status is never No_Update at that point.
C13_ResultMatchesVersion ==
    [][\A t \in Tasks :
         (Returns(t) /\ solo[t] /\ Admitted(t) /\ new_version[t] # req[t].version)
         => (/\ state' = "Idle"
             /\ last_upgrade_status' \in {"Success", "Failed"}
             /\ last_upgrade_status' = "Success" <=> software_version' = new_version[t])]_vars

\* C13 witness: an admitted lone request has returned with Failed and the old version
\* after its install lost power
C13_Witness ==
    \E t \in Tasks :
        /\ pc[t] = "done" /\ solo[t] /\ Admitted(t) /\ outcome[t] = "PowerLost"
        /\ new_version[t] # req[t].version
        /\ Alone(t) /\ state = "Idle"
        /\ last_upgrade_status = "Failed" /\ software_version # new_version[t]

\* C14: no orphaned child process: a thread that is on the failure path of update()
\* (about to write Failed, about to write Idle) or has returned has no child process
\* still running, whichever phase failed and with any number of concurrent requests.
C14_NoOrphanedProcess ==
    \A t \in Tasks :
        pc[t] \in {"fail_status", "fail_state", "done"} => process[t] # "running"

\* C14 witness: an install that lost power is about to record the failure, and its
\* child, found running, has been terminated
C14_Witness ==
    \E t \in Tasks :
        /\ pc[t] = "fail_status" /\ outcome[t] = "PowerLost"
        /\ process[t] = "terminated"
        /\ state \in {"Upgrading", "Downgrading"}

\* C15: the step that enters the Install phase sets state to Upgrading when the target
\* is at least the version read at that moment, and to Downgrading when it is lower;
\* in both directions the same process is started and the same loop is entered.
C15_InstallDirection ==
    [][\A t \in Tasks :
         Leaves(t, "inst_start")
         => (/\ new_version[t] >= software_version => state' = "Upgrading"
             /\ new_version[t] < software_version => state' = "Downgrading"
             /\ pc'[t] = "inst_poll"
             /\ process'[t] = "running"
             /\ UNCHANGED <<software_version, last_upgrade_status>>)]_vars

\* C15 witness: a downgrade is installing
C15_Witness ==
    \E t \in Tasks :
        /\ pc[t] = "inst_poll" /\ state = "Downgrading"
        /\ new_version[t] < software_version /\ process[t] = "running"
\* C16: the success commit is atomic for readers: while a request alone on the device
\* is running, no state shows the last upgrade status Success written by this
\* attempt with a version that is not the target, and no state shows the version
\* already at the target with state still Upgrading or Downgrading.
C16_CommitAtomic ==
    \A t \in Tasks :
        (InFlight(t) /\ solo[t] /\ new_version[t] # req[t].version)
        => (/\ (req[t].status # "Success" /\ last_upgrade_status = "Success")
               => software_version = new_version[t]
            /\ software_version = new_version[t]
               => state \notin {"Upgrading", "Downgrading"})

\* C17: a thread that passed the admission wait but found the device taken at the
\* check of download_image (it did not set state = Downloading itself) writes neither
\* state nor the last upgrade status nor the version in any of its later steps.
C17_LoserWritesNothing ==
    [][\A t \in Tasks :
         (outcome[t] = "NotIdle" /\ pc'[t] # pc[t])
         => UNCHANGED <<state, last_upgrade_status, software_version>>]_vars

\* C18: within one Download tick the first check that fires decides, in the order
\* connection, timeout, process exit: a tick with the connection down fails the phase
\* as ConnectionLost whatever the elapsed time and the process; a tick with the
\* connection up, MAX_DOWNLOAD_TIME or more elapsed and the process already exited
\* fails the phase as DownloadTimeout.
C18_DownloadCheckOrder ==
    [][\A t \in Tasks :
         Leaves(t, "dl_poll")
         => (/\ ~connected
                => (outcome'[t] = "ConnectionLost" /\ pc'[t] = "fail_status")
             /\ (/\ connected
                 /\ now - start_time[t] >= MAX_DOWNLOAD_TIME
                 /\ process[t] = "exited")
                => (outcome'[t] = "DownloadTimeout" /\ pc'[t] = "fail_status"))]_vars

\* C19: with any number of requests, concurrent or not, the version changes only in
\* the commit step of a thread whose download and install both completed, and the new
\* value is that thread's target; no other step of any thread changes it.
C19_VersionChangesOnlyOnCommit ==
    [][software_version' # software_version
       => \E t \in Tasks :
            /\ pc[t] = "commit_version" /\ pc'[t] = "commit_state"
            /\ outcome[t] = "InstallCompleted"
            /\ software_version' = new_version[t]]_vars

\* C19 witness: of two concurrent requests one has committed its target as the new
\* version and the other is on its failure path with the version it did not change
C19_Witness ==
    \E t, u \in Tasks :
        /\ t # u /\ ~solo[t] /\ ~solo[u]
        /\ pc[t] \in {"commit_state", "done"} /\ outcome[t] = "InstallCompleted"
        /\ software_version = new_version[t] /\ new_version[t] # req[t].version
        /\ pc[u] \in {"fail_status", "fail_state"}

\* C20: draining the install output never blocks: a thread at the drain of an Install
\* tick can always take its next step, whether or not the install process has closed
\* its output or exited, so that the power and timeout checks of the next tick are
\* reached while the process is still running.
C20_DrainNeverBlocks ==
    \A t \in Tasks : pc[t] = "inst_drain" => ENABLED install_drain(t)

\* the changes of state the phases of one update go through
PhaseTransitions ==
    { <<"Idle", "Downloading">>, <<"Downloading", "Upgrading">>,
      <<"Downloading", "Downgrading">>, <<"Downloading", "Idle">>,
      <<"Upgrading", "Idle">>, <<"Downgrading", "Idle">> }

\* C21: with any number of concurrent requests, whatever their targets, every change
\* of state made by a step of an update thread is one of Idle -> Downloading,
\* Downloading -> Upgrading, Downloading -> Downgrading, Downloading -> Idle,
\* Upgrading -> Idle, Downgrading -> Idle; state never goes from Idle straight to
\* Upgrading or Downgrading, nor between Upgrading and Downgrading, nor from either
\* back to Downloading.
C21_StateFollowsPhases ==
    [][(state' # state /\ \E t \in Tasks : pc'[t] # pc[t])
       => <<state, state'>> \in PhaseTransitions]_vars

====
